---- MODULE Spec2Model ----
(***************************************************************************)
(* A model of go-gen-struct: main(), listGoFiles, searchTargetStructs,     *)
(* generateTargetSetter, containsTargetField and getFiledTypeString.       *)
(*                                                                         *)
(* Text (Go strings) is modelled as a sequence of tokens; every token is   *)
(* an identifier, a path segment or a piece of punctuation, so that two    *)
(* texts are equal exactly when their token sequences are equal.           *)
(***************************************************************************)
EXTENDS Integers, Sequences, FiniteSets, TLC

VARIABLES
    fs,          \* the directory: path -> contents of the file
    readonly,    \* the paths os.WriteFile cannot write
    run,         \* the number of the run of main()
    files,       \* main: the list listGoFiles returned
    idx,         \* main: the position of the loop in files
    pc,          \* main: "start", "scan", "generate", "done" or "panic"
    node,        \* the *ast.File of the last parse
    t,           \* the *targetStructs of the last searchTargetStructs
    last,        \* the outcome of the last generateTargetSetter
    logs,        \* what log.Println printed
    fsAtList,    \* the directory as listGoFiles saw it
    fsAfterRun,  \* the directory as each finished run left it
    expr,        \* the type expression given to getFiledTypeString
    printed      \* what getFiledTypeString did on expr

vars == <<fs, readonly, run, files, idx, pc, node, t, last, logs, fsAtList, fsAfterRun,
          expr, printed>>

(***************************************************************************)
(* Bounds of the model.                                                    *)
(***************************************************************************)
MaxDepth == 2    \* nesting depth of the type expressions given to the printer
MaxGroups == 2   \* declaration groups per source unit
MaxFields == 2   \* field declarations per struct
MaxImports == 2  \* import specs per source unit
Runs == 2        \* runs of the generator over the same directory

(***************************************************************************)
(* Helpers on sequences.                                                   *)
(***************************************************************************)
Range(s) == {s[i] : i \in 1..Len(s)}

SeqsUpTo(S, n) == UNION {[1..k -> S] : k \in 0..n}

RECURSIVE Flatten(_)
Flatten(ss) == IF ss = <<>> THEN <<>> ELSE Head(ss) \o Flatten(Tail(ss))

Perms(S) == {p \in [1..Cardinality(S) -> S] : \A x \in S : \E i \in DOMAIN p : p[i] = x}

(***************************************************************************)
(* go/ast type expression nodes.                                           *)
(***************************************************************************)
Ident(name) == [kind |-> "Ident", Name |-> name]
StarExpr(x) == [kind |-> "StarExpr", X |-> x]
SelectorExpr(x, sel) == [kind |-> "SelectorExpr", X |-> x, Sel |-> sel]
\* Len is "nil" for a slice []T and the length expression for an array [N]T
ArrayType(len, elt) == [kind |-> "ArrayType", Len |-> len, Elt |-> elt]
MapType(key, value) == [kind |-> "MapType", Key |-> key, Value |-> value]
\* Methods is the list of method names; <<>> for interface{}
InterfaceType(methods) == [kind |-> "InterfaceType", Methods |-> methods]
\* Dir is "both" (chan T), "send" (chan<- T) or "recv" (<-chan T)
ChanType(dir, value) == [kind |-> "ChanType", Dir |-> dir, Value |-> value]
Ellipsis(elt) == [kind |-> "Ellipsis", Elt |-> elt]
FuncType == [kind |-> "FuncType"]
StructType(fields) == [kind |-> "StructType", Fields |-> fields]
IndexExpr(x, index) == [kind |-> "IndexExpr", X |-> x, Index |-> index]

(***************************************************************************)
(* getFiledTypeString: the result is [panic, s]; s is the returned text.   *)
(* A panic in a recursive call unwinds through the callers.                *)
(***************************************************************************)
Returned(s) == [panic |-> FALSE, s |-> s]
Panicked == [panic |-> TRUE, s |-> <<>>]

\* string concatenation a + f(x), where the call f(x) may panic
Prepend(prefix, r) == IF r.panic THEN r ELSE Returned(prefix \o r.s)
\* f(x) + a + f(y): the operands are evaluated left to right
Join3(r1, mid, r2) ==
    IF r1.panic THEN r1 ELSE IF r2.panic THEN r2 ELSE Returned(r1.s \o mid \o r2.s)

RECURSIVE getFiledTypeString(_)
getFiledTypeString(expr0) ==
    CASE expr0.kind = "Ident" -> Returned(<<expr0.Name>>)
      [] expr0.kind = "StarExpr" -> Prepend(<<"*">>, getFiledTypeString(expr0.X))
      [] expr0.kind = "SelectorExpr" ->
            Join3(getFiledTypeString(expr0.X), <<".">>, Returned(<<expr0.Sel>>))
      [] expr0.kind = "ArrayType" -> Prepend(<<"[]">>, getFiledTypeString(expr0.Elt))
      [] expr0.kind = "MapType" ->
            Prepend(<<"map[">>,
                    Join3(getFiledTypeString(expr0.Key), <<"]">>,
                          getFiledTypeString(expr0.Value)))
      [] expr0.kind = "InterfaceType" -> Returned(<<"interface{}">>)
      [] expr0.kind = "ChanType" -> Prepend(<<"chann ">>, getFiledTypeString(expr0.Value))
      [] expr0.kind = "Ellipsis" -> Prepend(<<"...">>, getFiledTypeString(expr0.Elt))
      [] OTHER -> Panicked

(***************************************************************************)
(* The type expressions given to the printer, by nesting depth.  Map keys  *)
(* are leaves.                                                             *)
(***************************************************************************)
LeafTypes ==
    { Ident("string"),
      SelectorExpr(Ident("time"), "Time"),
      SelectorExpr(Ident("sql"), "NullTime"),
      InterfaceType(<<>>),
      InterfaceType(<<"String">>),
      FuncType,
      StructType(<<>>),
      IndexExpr(Ident("List"), Ident("string")) }

KeyTypes == { Ident("string"), SelectorExpr(Ident("sql"), "NullTime") }

RECURSIVE TypeExprs(_)
TypeExprs(d) ==
    IF d = 0 THEN LeafTypes
    ELSE LET sub == TypeExprs(d - 1) IN
         sub
         \cup {StarExpr(e) : e \in sub}
         \cup {ArrayType(l, e) : l \in {"nil", "3"}, e \in sub}
         \cup {MapType(k, e) : k \in KeyTypes, e \in sub}
         \cup {ChanType(dir, e) : dir \in {"both", "recv"}, e \in sub}
         \cup {Ellipsis(e) : e \in sub}

(***************************************************************************)
(* Paths and file names.  A path is the token sequence dir / base, a base  *)
(* name ends with the token ".go".                                         *)
(***************************************************************************)
LastIndexOf(s, tok) ==
    IF \E i \in 1..Len(s) : s[i] = tok
    THEN CHOOSE i \in 1..Len(s) : s[i] = tok /\ \A j \in (i + 1)..Len(s) : s[j] # tok
    ELSE 0

\* filepath.Base of a non-empty path without trailing separator
Base(p) == SubSeq(p, LastIndexOf(p, "/") + 1, Len(p))

\* filepath.Dir of a path that holds a separator
Dir(p) == SubSeq(p, 1, LastIndexOf(p, "/") - 1)

HasSuffix(s, suffix) ==
    /\ Len(s) >= Len(suffix)
    /\ SubSeq(s, Len(s) - Len(suffix) + 1, Len(s)) = suffix

HasPrefix(s, prefix) == Len(s) >= Len(prefix) /\ SubSeq(s, 1, Len(prefix)) = prefix

TrimSuffix(s, suffix) ==
    IF HasSuffix(s, suffix) THEN SubSeq(s, 1, Len(s) - Len(suffix)) ELSE s

\* strings.Contains(s, "."): "..." holds a "." too
HoldsDot(tok) == tok \in {".", "..."}
ContainsDot(s) == \E i \in 1..Len(s) : HoldsDot(s[i])

\* strings.Split(s, ".")[0]: the text before the first "."
BeforeFirstDot(s) ==
    LET first == CHOOSE i \in 1..Len(s) : HoldsDot(s[i]) /\ \A j \in 1..(i - 1) : ~HoldsDot(s[j])
    IN  SubSeq(s, 1, first - 1)

(***************************************************************************)
(* go/ast declarations and the parsed file.                                *)
(***************************************************************************)
NoDoc == [present |-> FALSE, List |-> <<>>]
DocOf(lines) == [present |-> TRUE, List |-> lines]

Field(names, type) == [Names |-> names, Type |-> type]
TypeSpec(name, type) == [Name |-> name, Type |-> type]
GenDecl(tok, doc, specs) == [kind |-> "GenDecl", Tok |-> tok, Doc |-> doc, Specs |-> specs]
\* Body holds the declaration statements of the function body, in order
FuncDecl(name, body) == [kind |-> "FuncDecl", Name |-> name, Body |-> body]
ImportSpec(path) == [Path |-> <<"\"">> \o path \o <<"\"">>]
File(name, imports, decls) == [Name |-> name, Imports |-> imports, Decls |-> decls]

\* the contents of a file on disk
Absent == [kind |-> "absent"]
Malformed == [kind |-> "malformed"]
Source(file) == [kind |-> "source", file |-> file]
Generated(src) == [kind |-> "generated", src |-> src]

\* the GenDecl nodes in the order ast.Inspect visits them
GenDeclsOf(decl) == IF decl.kind = "GenDecl" THEN <<decl>> ELSE decl.Body
InspectGenDecls(file) == Flatten([i \in 1..Len(file.Decls) |-> GenDeclsOf(file.Decls[i])])

\* the import paths of the import block of a generated text
QuotePositions(src) == SelectSeq([i \in 1..Len(src) |-> i], LAMBDA i : src[i] = "\"")
ImportBlockOf(src) ==
    LET q == QuotePositions(src)
    IN  [k \in 1..(Len(q) \div 2) |-> SubSeq(src, q[2 * k - 1] + 1, q[2 * k] - 1)]

\* parser.ParseFile: a generated file holds a package clause, an import
\* declaration and methods only
ParseFile(content) ==
    IF content.kind = "source" THEN [err |-> FALSE, node |-> content.file]
    ELSE IF content.kind = "generated"
    THEN [err |-> FALSE,
          node |-> File(content.src[2],
                        [i \in 1..Len(ImportBlockOf(content.src)) |->
                            ImportSpec(ImportBlockOf(content.src)[i])],
                        <<>>)]
    ELSE [err |-> TRUE, node |-> File("", <<>>, <<>>)]

(***************************************************************************)
(* searchTargetStructs                                                     *)
(***************************************************************************)
Marker == "//gen:setters"

\* a comment is the token sequence of its text, the comment marker first
IsMarked(comment) == HasPrefix(comment, <<Marker>>)

IsStruct(typeSpec) == typeSpec.Type.kind = "StructType"

StructsOf(genDecl) == SelectSeq(genDecl.Specs, IsStruct)

\* lines 84-96: every marked comment line appends the structs of the group
RECURSIVE AppendPerMarkedLine(_, _, _)
AppendPerMarkedLine(structs, comments, genDecl) ==
    IF comments = <<>> THEN structs
    ELSE AppendPerMarkedLine(
             IF IsMarked(Head(comments)) THEN structs \o StructsOf(genDecl) ELSE structs,
             Tail(comments), genDecl)

IsEligible(genDecl) == genDecl.Tok = "type" /\ genDecl.Doc.present

ImportPaths(file) ==
    [i \in 1..Len(file.Imports) |->
        SubSeq(file.Imports[i].Path, 2, Len(file.Imports[i].Path) - 1)]

\* lines 76-96: what the callback does on an eligible group
VisitGenDecl(acc, genDecl, file) ==
    [imports |-> ImportPaths(file),
     structs |-> AppendPerMarkedLine(<<>>, genDecl.Doc.List, genDecl)]

RECURSIVE InspectFrom(_, _, _)
InspectFrom(acc, genDecls, file) ==
    IF genDecls = <<>> THEN acc
    ELSE InspectFrom(
             IF IsEligible(Head(genDecls)) THEN VisitGenDecl(acc, Head(genDecls), file) ELSE acc,
             Tail(genDecls), file)

NoTargetStructs ==
    [structs |-> <<>>, packageName |-> "", imports |-> <<>>, path |-> <<>>, filename |-> <<>>]

searchTargetStructs(filename, content) ==
    LET parsed == ParseFile(content)
        acc == InspectFrom([imports |-> <<>>, structs |-> <<>>],
                           InspectGenDecls(parsed.node), parsed.node)
    IN  IF parsed.err THEN [err |-> TRUE, node |-> parsed.node, t |-> NoTargetStructs]
        ELSE [err |-> FALSE,
              node |-> parsed.node,
              t |-> [structs |-> acc.structs,
                     packageName |-> parsed.node.Name,
                     imports |-> acc.imports,
                     path |-> Dir(filename),
                     filename |-> Base(filename)]]

(***************************************************************************)
(* generateTargetSetter                                                    *)
(***************************************************************************)
targetFields == <<"CreatedAt", "UpdatedAt">>

containsTargetField(f, targets) == \E i \in 1..Len(targets) : f = targets[i]

\* lines 135-138: the map from filepath.Base(imp) to the import; a later
\* import with the same base replaces an earlier one
RECURSIVE BuildImportsMap(_, _)
BuildImportsMap(m, imports) ==
    IF imports = <<>> THEN m
    ELSE LET imp == Head(imports)
             key == Base(imp)
         IN  BuildImportsMap(
                 [k \in (DOMAIN m) \cup {key} |->
                     IF k = key THEN [pkg |-> imp, used |-> FALSE] ELSE m[k]],
                 Tail(imports))

EmptyMap == [k \in {} |-> [pkg |-> <<>>, used |-> FALSE]]

\* lines 156-161
MarkUsed(m, fieldType) ==
    IF ContainsDot(fieldType)
    THEN LET pkg == BeforeFirstDot(fieldType)
         IN  IF pkg \in DOMAIN m THEN [m EXCEPT ![pkg].used = TRUE] ELSE m
    ELSE m

\* line 150: the name of a field declaration
FieldName(field) == field.Names[1]

\* lines 146-167 for one field: acc is [panic, setters, importsMap]
VisitField(acc, structName, field, targets) ==
    IF acc.panic \/ Len(field.Names) = 0 THEN acc
    ELSE IF ~containsTargetField(FieldName(field), targets) THEN acc
    ELSE LET fieldType == getFiledTypeString(field.Type)
         IN  IF fieldType.panic THEN [acc EXCEPT !.panic = TRUE]
             ELSE [panic |-> FALSE,
                   importsMap |-> MarkUsed(acc.importsMap, fieldType.s),
                   setters |-> Append(acc.setters,
                                      [StructName |-> structName,
                                       FieldName |-> FieldName(field),
                                       FieldType |-> fieldType.s])]

RECURSIVE VisitFields(_, _, _, _)
VisitFields(acc, structName, fields, targets) ==
    IF fields = <<>> THEN acc
    ELSE VisitFields(VisitField(acc, structName, Head(fields), targets),
                     structName, Tail(fields), targets)

\* lines 141-168
RECURSIVE VisitStructs(_, _, _)
VisitStructs(acc, structs, targets) ==
    IF structs = <<>> THEN acc
    ELSE VisitStructs(
             IF Head(structs).Type.kind = "StructType"
             THEN VisitFields(acc, Head(structs).Name, Head(structs).Type.Fields, targets)
             ELSE acc,
             Tail(structs), targets)

CollectSetters(t0, targets) ==
    VisitStructs([panic |-> FALSE,
                  importsMap |-> BuildImportsMap(EmptyMap, t0.imports),
                  setters |-> <<>>],
                 t0.structs, targets)

NothingToGenerate_Never(setters) == FALSE

\* line 169
NothingToGenerate(setters) == Len(setters) = 0

IsUsed_Always(imp) == TRUE

\* line 173
IsUsed(imp) == imp.used

\* lines 172-176: the used imports; the range over the map visits them in
\* an order the runtime picks
UsedImports(m) == {m[k].pkg : k \in {k \in DOMAIN m : IsUsed(m[k])}}

\* html/template escapes the text of every value it inserts
HTMLEscapeToken(tok) ==
    CASE tok = "\"" -> "&#34;"
      [] tok = "'" -> "&#39;"
      [] tok = "&" -> "&amp;"
      [] tok = "<" -> "&lt;"
      [] tok = ">" -> "&gt;"
      [] tok = "+" -> "&#43;"
      [] OTHER -> tok
HTMLEscape(s) == [i \in 1..Len(s) |-> HTMLEscapeToken(s[i])]

\* lines 236-250, 177-189: the template executed on the data
RenderImport(imp) == <<"\"">> \o HTMLEscape(imp) \o <<"\"">>
RenderSetter(st) ==
    <<"func", "(", "s", "*", HTMLEscapeToken(st.StructName), ")",
      "Set", HTMLEscapeToken(st.FieldName), "(", "v">>
    \o HTMLEscape(st.FieldType)
    \o <<")", "{", "s", ".", HTMLEscapeToken(st.FieldName), "=", "v", "}">>
Render(d) ==
    <<"package", HTMLEscapeToken(d.PackageName), "import", "(">>
    \o Flatten([i \in 1..Len(d.Imports) |-> RenderImport(d.Imports[i])])
    \o <<")">>
    \o Flatten([i \in 1..Len(d.Setters) |-> RenderSetter(d.Setters[i])])

\* line 190: format.Source parses the text; "chann T" is no type.  The
\* import specs stand on lines of their own with blank lines in between, so
\* the formatter keeps their order, and on tokens it changes nothing.
FormatSource(src) ==
    IF \E i \in 1..Len(src) : src[i] = "chann " THEN [err |-> TRUE, src |-> <<>>]
    ELSE [err |-> FALSE, src |-> src]

\* lines 194-197
OutputPath(t0) ==
    t0.path \o <<"/">> \o TrimSuffix(t0.filename, <<".go">>) \o <<"_setters", ".go">>

NoData == [PackageName |-> "", Imports |-> <<>>, Setters |-> <<>>]
NoOutcome == [outcome |-> "none", path |-> <<>>, src |-> <<>>, data |-> NoData]

\* The outcomes of generateTargetSetter(targets) on t0 when the files of
\* unwritable cannot be written: "panic", "nothing" (return nil before the
\* template), "error" (Execute, format.Source or WriteFile failed) or
\* "written".
generateTargetSetter(t0, targets, unwritable) ==
    LET acc == CollectSetters(t0, targets) IN
    IF acc.panic THEN {[NoOutcome EXCEPT !.outcome = "panic"]}
    ELSE IF NothingToGenerate(acc.setters) THEN {[NoOutcome EXCEPT !.outcome = "nothing"]}
    ELSE { LET d == [PackageName |-> t0.packageName, Imports |-> imports,
                     Setters |-> acc.setters]
               formatted == FormatSource(Render(d))
           IN  IF formatted.err
               THEN [outcome |-> "error", path |-> <<>>, src |-> <<>>, data |-> d]
               ELSE IF OutputPath(t0) \in unwritable
               THEN [outcome |-> "error", path |-> OutputPath(t0), src |-> <<>>, data |-> d]
               ELSE [outcome |-> "written", path |-> OutputPath(t0),
                     src |-> formatted.src, data |-> d]
           : imports \in Perms(UsedImports(acc.importsMap)) }

(***************************************************************************)
(* listGoFiles: filepath.Walk visits the names of a directory in lexical   *)
(* (byte) order.                                                           *)
(***************************************************************************)
\* the order of the first bytes of the tokens of a file name
TokRank(tok) ==
    CASE tok = ".go" -> 1
      [] tok = "/" -> 2
      [] tok = "_setters" -> 3
      [] OTHER -> 4 + (IF tok = "a" THEN 0 ELSE IF tok = "b" THEN 1 ELSE 2)

LexLess(p, q) ==
    \E i \in 1..Len(q) :
        /\ \A j \in 1..(i - 1) : j <= Len(p) /\ p[j] = q[j]
        /\ (i > Len(p) \/ TokRank(p[i]) < TokRank(q[i]))

RECURSIVE SortedSeq(_)
SortedSeq(S) ==
    IF S = {} THEN <<>>
    ELSE LET least == CHOOSE p \in S : \A q \in S \ {p} : LexLess(p, q)
         IN  <<least>> \o SortedSeq(S \ {least})

listGoFiles(dir) ==
    SortedSeq({p \in DOMAIN dir : dir[p].kind # "absent" /\ HasSuffix(p, <<".go">>)})

(***************************************************************************)
(* The source units and directories the generator is run on.               *)
(***************************************************************************)
TimeT == SelectorExpr(Ident("time"), "Time")
NullTimeT == SelectorExpr(Ident("sql"), "NullTime")

TimePath == <<"time">>
LogPath == <<"log">>
SqlPath == <<"database", "/", "sql">>
OtherTimePath == <<"x", "/", "time">>
ImportPathSet == {TimePath, LogPath, SqlPath, OtherTimePath}

ImportsOf(paths) == [i \in 1..Len(paths) |-> ImportSpec(paths[i])]

MarkerLine == <<Marker>>
MarkerLineV2 == <<Marker, " v2">>
OtherLine == <<"//", " doc">>

MarkedStruct(name, fields) ==
    GenDecl("type", DocOf(<<MarkerLine>>), <<TypeSpec(name, StructType(fields))>>)

\* field lists a Go struct can hold: no name twice
DistinctNames(fields) ==
    \A i, j \in 1..Len(fields) :
        \A a \in 1..Len(fields[i].Names), b \in 1..Len(fields[j].Names) :
            (i # j \/ a # b) => fields[i].Names[a] # fields[j].Names[b]

\* groups: the declaration groups of a unit, one declared name per group
GroupDocs ==
    { NoDoc, DocOf(<<MarkerLine>>), DocOf(<<OtherLine>>),
      DocOf(<<MarkerLine, MarkerLine>>), DocOf(<<OtherLine, MarkerLineV2>>) }

StructNames == <<"A", "B", "C", "D">>

GroupShapes(name) ==
    LET st == TypeSpec(name, StructType(<<Field(<<"CreatedAt">>, TimeT)>>))
        alias == TypeSpec(name \o "ID", Ident("string"))
    IN  {GenDecl("type", doc, specs) : doc \in GroupDocs, specs \in {<<st>>, <<alias, st>>}}
        \cup {GenDecl("var", doc, <<>>) : doc \in GroupDocs}
        \cup {FuncDecl(name, <<>>)}

GroupUnits ==
    { File("example", ImportsOf(<<TimePath>>), decls) :
        decls \in UNION { {d \in [1..k -> UNION {GroupShapes(StructNames[i]) : i \in 1..k}] :
                              \A i \in 1..k : d[i] \in GroupShapes(StructNames[i])}
                          : k \in 0..MaxGroups } }

\* fields: one marked struct, its field declarations
FieldNameLists ==
    { <<>>, <<"Name">>, <<"CreatedAt">>, <<"UpdatedAt">>,
      <<"CreatedAt", "UpdatedAt">>, <<"X", "CreatedAt">> }

FieldShapes ==
    {Field(names, type) : names \in FieldNameLists,
                          type \in {Ident("string"), TimeT, StarExpr(TimeT), NullTimeT}}

FieldUnits ==
    { File("example", ImportsOf(<<LogPath, TimePath>>),
           <<FuncDecl("add", <<>>), MarkedStruct("example", fields)>>) :
        fields \in {fl \in SeqsUpTo(FieldShapes, MaxFields) : DistinctNames(fl)} }

\* types: one marked struct with one target field, its type
RECURSIVE HasEllipsis(_)
HasEllipsis(e) ==
    CASE e.kind = "Ellipsis" -> TRUE
      [] e.kind \in {"StarExpr"} -> HasEllipsis(e.X)
      [] e.kind \in {"ArrayType"} -> HasEllipsis(e.Elt)
      [] e.kind \in {"MapType", "ChanType"} -> HasEllipsis(e.Value)
      [] OTHER -> FALSE

\* the parser accepts no ...T as the type of a field
FieldTypes == {e \in TypeExprs(MaxDepth - 1) : ~HasEllipsis(e)}

TypeUnits ==
    { File("example", ImportsOf(paths),
           <<MarkedStruct("example", <<Field(<<"CreatedAt">>, type)>>)>>) :
        paths \in {<<TimePath>>, <<SqlPath, TimePath>>}, type \in FieldTypes }

\* imports: the import list of a unit with one marked struct
ImportUnits ==
    { File("example", ImportsOf(paths),
           <<MarkedStruct("example", <<Field(<<"Name">>, NullTimeT), Field(<<"CreatedAt">>, c),
                                       Field(<<"UpdatedAt">>, u)>>)>>) :
        paths \in SeqsUpTo(ImportPathSet, MaxImports),
        c \in {TimeT, Ident("string")}, u \in {TimeT, NullTimeT} }

Units == GroupUnits \cup FieldUnits \cup TypeUnits \cup ImportUnits

\* the directory
Workdir == <<"d">>
PathOf(base) == Workdir \o <<"/">> \o base
AGo == PathOf(<<"a", ".go">>)
ASettersGo == PathOf(<<"a", "_setters", ".go">>)
BGo == PathOf(<<"b", ".go">>)
InitialPaths == {AGo, ASettersGo, BGo}

Companion(p) == TrimSuffix(p, <<".go">>) \o <<"_setters", ".go">>
Paths ==
    InitialPaths \cup {Companion(p) : p \in InitialPaths}
                 \cup {Companion(Companion(p)) : p \in InitialPaths}

\* example/example_v1.go, with the struct named name
ExampleUnit(name) ==
    File("example", ImportsOf(<<LogPath, TimePath>>),
         <<FuncDecl("add", <<>>),
           MarkedStruct(name, <<Field(<<"Name">>, Ident("string")),
                                Field(<<"CreatedAt">>, TimeT),
                                Field(<<"UpdatedAt">>, TimeT)>>)>>)

\* the files of a directory of several units
Menu(name) ==
    { Malformed,
      Source(ExampleUnit(name)),
      Source(File("example", ImportsOf(<<LogPath>>), <<FuncDecl("add" \o name, <<>>)>>)),
      Source(File("example", <<>>,
                  <<MarkedStruct(name, <<Field(<<"CreatedAt">>, FuncType)>>)>>)),
      Source(File("example", <<>>,
                  <<MarkedStruct(name, <<Field(<<"CreatedAt">>,
                                               ChanType("both", Ident("int")))>>)>>)),
      Source(File("example", ImportsOf(<<SqlPath, TimePath>>),
                  <<MarkedStruct(name, <<Field(<<"CreatedAt">>, TimeT),
                                         Field(<<"UpdatedAt">>, NullTimeT)>>)>>)) }

\* what an earlier run on ExampleUnit("A") in a.go left in a_setters.go
StaleCompanion ==
    Generated(Render([PackageName |-> "example", Imports |-> <<TimePath>>,
                      Setters |-> <<[StructName |-> "A", FieldName |-> "CreatedAt",
                                     FieldType |-> <<"time", ".", "Time">>],
                                    [StructName |-> "A", FieldName |-> "UpdatedAt",
                                     FieldType |-> <<"time", ".", "Time">>]>>]))

Directory(a, as, b) ==
    [p \in Paths |-> IF p = AGo THEN a ELSE IF p = ASettersGo THEN as
                     ELSE IF p = BGo THEN b ELSE Absent]

OneFileDirectories == {Directory(Source(u), Absent, Absent) : u \in Units}

Directories ==
    {Directory(a, as, b) : a \in Menu("A"),
                           as \in Menu("AS") \cup {Absent, StaleCompanion},
                           b \in Menu("B") \cup {Absent}}

(***************************************************************************)
(* main                                                                    *)
(***************************************************************************)
NotPrinted == [done |-> FALSE, panic |-> FALSE, s |-> <<>>]
NoFile == File("", <<>>, <<>>)

Init ==
    /\ \/ fs \in OneFileDirectories /\ readonly = {}
       \/ fs \in Directories /\ readonly \in {{}, {ASettersGo}}
    /\ run = 1
    /\ files = <<>>
    /\ idx = 0
    /\ pc = "start"
    /\ node = NoFile
    /\ t = NoTargetStructs
    /\ last = NoOutcome
    /\ logs = <<>>
    /\ fsAtList = fs
    /\ fsAfterRun = <<>>
    /\ expr = Ident("string")
    /\ printed = NotPrinted

\* line 27
ListFiles ==
    /\ pc = "start"
    /\ files' = listGoFiles(fs)
    /\ idx' = 1
    /\ pc' = "scan"
    /\ fsAtList' = fs
    /\ UNCHANGED <<fs, readonly, run, node, t, last, logs, fsAfterRun, expr, printed>>

InLoop == pc = "scan" /\ idx <= Len(files)

\* lines 32-36: searchTargetStructs failed
ScanError ==
    /\ InLoop
    /\ searchTargetStructs(files[idx], fs[files[idx]]).err
    /\ logs' = Append(logs, "parse error")
    /\ idx' = idx + 1
    /\ UNCHANGED <<fs, readonly, run, files, pc, node, t, last, fsAtList, fsAfterRun, expr, printed>>

\* line 32: searchTargetStructs returned the target structs
Scan ==
    /\ InLoop
    /\ LET r == searchTargetStructs(files[idx], fs[files[idx]])
       IN  /\ ~r.err
           /\ node' = r.node
           /\ t' = r.t
    /\ pc' = "generate"
    /\ UNCHANGED <<fs, readonly, run, files, idx, last, logs, fsAtList, fsAfterRun, expr, printed>>

Outcomes == generateTargetSetter(t, targetFields, readonly)

\* line 155: getFiledTypeString panicked; the process ends
GeneratePanic ==
    /\ pc = "generate"
    /\ \E o \in Outcomes :
        /\ o.outcome = "panic"
        /\ last' = o
    /\ pc' = "panic"
    /\ UNCHANGED <<fs, readonly, run, files, idx, node, t, logs, fsAtList, fsAfterRun, expr, printed>>

\* lines 169-171
GenerateNothing ==
    /\ pc = "generate"
    /\ \E o \in Outcomes :
        /\ o.outcome = "nothing"
        /\ last' = o
    /\ idx' = idx + 1
    /\ pc' = "scan"
    /\ UNCHANGED <<fs, readonly, run, files, node, t, logs, fsAtList, fsAfterRun, expr, printed>>

\* lines 37-39: generateTargetSetter returned an error
GenerateError ==
    /\ pc = "generate"
    /\ \E o \in Outcomes :
        /\ o.outcome = "error"
        /\ last' = o
    /\ logs' = Append(logs, "generate error")
    /\ idx' = idx + 1
    /\ pc' = "scan"
    /\ UNCHANGED <<fs, readonly, run, files, node, t, fsAtList, fsAfterRun, expr, printed>>

\* lines 198-201
GenerateWrite ==
    /\ pc = "generate"
    /\ \E o \in Outcomes :
        /\ o.outcome = "written"
        /\ last' = o
        /\ fs' = [fs EXCEPT ![o.path] = Generated(o.src)]
    /\ idx' = idx + 1
    /\ pc' = "scan"
    /\ UNCHANGED <<readonly, run, files, node, t, logs, fsAtList, fsAfterRun, expr, printed>>

\* line 41
Finish ==
    /\ pc = "scan"
    /\ idx > Len(files)
    /\ logs' = Append(logs, "Successfully generated")
    /\ pc' = "done"
    /\ fsAfterRun' = Append(fsAfterRun, fs)
    /\ UNCHANGED <<fs, readonly, run, files, idx, node, t, last, expr, printed, fsAtList>>

\* the generator is run again on the directory it left
RunAgain ==
    /\ pc = "done"
    /\ run < Runs
    /\ run' = run + 1
    /\ pc' = "start"
    /\ files' = <<>>
    /\ idx' = 0
    /\ node' = NoFile
    /\ t' = NoTargetStructs
    /\ last' = NoOutcome
    /\ logs' = <<>>
    /\ UNCHANGED <<fs, readonly, fsAtList, fsAfterRun, expr, printed>>

Next ==
    \/ ListFiles
    \/ ScanError
    \/ Scan
    \/ GeneratePanic
    \/ GenerateNothing
    \/ GenerateError
    \/ GenerateWrite
    \/ Finish
    \/ RunAgain

Spec == Init /\ [][Next]_vars

(***************************************************************************)
(* The type printer on its own.                                            *)
(***************************************************************************)
InitPrinter ==
    /\ expr \in TypeExprs(MaxDepth)
    /\ printed = NotPrinted
    /\ fs = Directory(Absent, Absent, Absent)
    /\ readonly = {}
    /\ run = 1
    /\ files = <<>>
    /\ idx = 0
    /\ pc = "start"
    /\ node = NoFile
    /\ t = NoTargetStructs
    /\ last = NoOutcome
    /\ logs = <<>>
    /\ fsAtList = fs
    /\ fsAfterRun = <<>>

PrintReturns ==
    /\ ~printed.done
    /\ ~getFiledTypeString(expr).panic
    /\ printed' = [done |-> TRUE, panic |-> FALSE, s |-> getFiledTypeString(expr).s]
    /\ UNCHANGED <<fs, readonly, run, files, idx, pc, node, t, last, logs, fsAtList, fsAfterRun, expr>>

PrintPanics ==
    /\ ~printed.done
    /\ getFiledTypeString(expr).panic
    /\ printed' = [done |-> TRUE, panic |-> TRUE, s |-> <<>>]
    /\ UNCHANGED <<fs, readonly, run, files, idx, pc, node, t, last, logs, fsAtList, fsAfterRun, expr>>

NextPrinter == PrintReturns \/ PrintPanics

SpecPrinter == InitPrinter /\ [][NextPrinter]_vars

(***************************************************************************)
(* What the claims speak of.                                               *)
(***************************************************************************)
\* generateTargetSetter has returned for the unit of node and t
Synthesized == pc \in {"scan", "done"} /\ last.outcome \in {"nothing", "written", "error"}

HasMarker(genDecl) == \E i \in 1..Len(genDecl.Doc.List) : IsMarked(genDecl.Doc.List[i])

\* the struct type specs of the marked type-declaration groups, once each
AnnotatedIn(genDecl) ==
    IF genDecl.Tok = "type" /\ genDecl.Doc.present /\ HasMarker(genDecl)
    THEN StructsOf(genDecl) ELSE <<>>
AnnotatedTypes(file) ==
    LET groups == InspectGenDecls(file)
    IN  Flatten([i \in 1..Len(groups) |-> AnnotatedIn(groups[i])])

\* one descriptor for each target name of each field declaration
DescriptorsOfField(typeSpec, field) ==
    LET named == SelectSeq(field.Names, LAMBDA n : n \in Range(targetFields))
    IN  [i \in 1..Len(named) |->
            [StructName |-> typeSpec.Name, FieldName |-> named[i],
             FieldType |-> getFiledTypeString(field.Type).s]]
DescriptorsOfStruct(typeSpec) ==
    Flatten([i \in 1..Len(typeSpec.Type.Fields) |->
                DescriptorsOfField(typeSpec, typeSpec.Type.Fields[i])])
ExpectedDescriptors(structs) ==
    Flatten([i \in 1..Len(structs) |-> DescriptorsOfStruct(structs[i])])

\* the package qualifiers of a type text: the tokens before a "."
QualifiersOf(s) == {<<s[i - 1]>> : i \in {j \in 2..Len(s) : s[j] = "."}}

\* the packages a type expression names
RECURSIVE PackagesOf(_)
PackagesOf(e) ==
    CASE e.kind = "SelectorExpr" -> {<<e.X.Name>>}
      [] e.kind = "StarExpr" -> PackagesOf(e.X)
      [] e.kind \in {"ArrayType", "Ellipsis"} -> PackagesOf(e.Elt)
      [] e.kind = "ChanType" -> PackagesOf(e.Value)
      [] e.kind = "MapType" -> PackagesOf(e.Key) \cup PackagesOf(e.Value)
      [] OTHER -> {}

\* the packages named by the target fields of the annotated types of a unit
TargetFieldPackages(file) ==
    LET structs == AnnotatedTypes(file)
    IN  UNION { UNION { IF \E n \in Range(structs[i].Type.Fields[j].Names) :
                               n \in Range(targetFields)
                        THEN PackagesOf(structs[i].Type.Fields[j].Type) ELSE {}
                        : j \in 1..Len(structs[i].Type.Fields) }
                : i \in 1..Len(structs) }

\* the parameter type of every method of a generated text
ParamPositions(src) ==
    SelectSeq([i \in 1..Len(src) |-> i], LAMBDA i : src[i] = "v" /\ src[i - 1] = "(")
ParamTypeAt(src, i) ==
    LET close == CHOOSE j \in (i + 1)..Len(src) :
                     src[j] = ")" /\ \A k \in (i + 1)..(j - 1) : src[k] # ")"
    IN  SubSeq(src, i + 1, close - 1)
ParamTypesOf(src) ==
    LET ps == ParamPositions(src) IN [k \in 1..Len(ps) |-> ParamTypeAt(src, ps[k])]

\* s with only the first occurrence of every element
WithoutRepeats(s) ==
    LET firsts == SelectSeq([i \in 1..Len(s) |-> i],
                            LAMBDA i : \A j \in 1..(i - 1) : s[j] # s[i])
    IN  [k \in 1..Len(firsts) |-> s[firsts[k]]]

Reverse(s) == [i \in 1..Len(s) |-> s[Len(s) + 1 - i]]

(***************************************************************************)
(* C1: searchTargetStructs returns exactly the struct type specs of all    *)
(* type-declaration groups whose doc block has a line beginning with       *)
(* //gen:setters, in declaration order; a group without the marker neither *)
(* adds nor removes a collected struct.  (How often a struct is collected  *)
(* is the subject of C10: repeats are dropped here.)                       *)
(***************************************************************************)
C1_ScanCollectsEveryMarkedGroup ==
    pc = "generate" => WithoutRepeats(t.structs) = AnnotatedTypes(node)

(***************************************************************************)
(* C2: a second run on the unchanged input leaves every file as the first  *)
(* run left it: the bytes written are a function of the unit alone.        *)
(***************************************************************************)
C2_SecondRunChangesNothing ==
    \A r \in 2..Len(fsAfterRun) : fsAfterRun[r] = fsAfterRun[1]

(***************************************************************************)
(* C3: every package qualifier of the type of a generated setter whose     *)
(* short name is that of an import of the unit has its import in the       *)
(* import block of the generated file, whatever surrounds the qualifier.   *)
(***************************************************************************)
C3_QualifiedImportsRetained ==
    (Synthesized /\ last.outcome = "written") =>
        \A i \in 1..Len(last.data.Setters) :
            \A q \in QualifiersOf(last.data.Setters[i].FieldType) :
                (\E imp \in Range(t.imports) : Base(imp) = q)
                    => \E imp \in Range(ImportBlockOf(last.src)) : Base(imp) = q

(***************************************************************************)
(* C4: a failure in one file is isolated: whenever the process has ended,  *)
(* it has been through the whole file list and has reported success.       *)
(***************************************************************************)
C4_FailuresIsolated ==
    pc \in {"done", "panic"} =>
        /\ pc = "done"
        /\ idx = Len(files) + 1
        /\ logs # <<>> /\ logs[Len(logs)] = "Successfully generated"

(***************************************************************************)
(* C5: the descriptors of a unit are, in struct order and then field       *)
(* declaration order, one for each field name of each annotated type that  *)
(* is a target name, also when several names share one declaration; the    *)
(* order of the target list does not change them.                          *)
(***************************************************************************)
C5_OneDescriptorPerTargetName ==
    Synthesized =>
        /\ CollectSetters(t, targetFields).setters = ExpectedDescriptors(t.structs)
        /\ CollectSetters(t, Reverse(targetFields)).setters
               = CollectSetters(t, targetFields).setters
        /\ last.data.Setters = CollectSetters(t, targetFields).setters

(***************************************************************************)
(* C6: for a unit that yields no descriptor (no marker anywhere, no        *)
(* annotated type, no field of an annotated type named in the target set)  *)
(* generateTargetSetter writes no file and returns no error; it writes a   *)
(* file only when there is a descriptor, and then only the file            *)
(* <dir>/<base name without .go>_setters.go.                               *)
(***************************************************************************)
NoMarkerAnywhere(file) ==
    \A g \in Range(InspectGenDecls(file)) : ~HasMarker(g)

NoTargetNamedField(file) ==
    \A st \in Range(AnnotatedTypes(file)) :
        \A f \in Range(st.Type.Fields) : \A n \in Range(f.Names) : n \notin Range(targetFields)

YieldsNoDescriptor ==
    \/ LET acc == CollectSetters(t, targetFields) IN ~acc.panic /\ acc.setters = <<>>
    \/ NoMarkerAnywhere(node)
    \/ AnnotatedTypes(node) = <<>>
    \/ NoTargetNamedField(node)

C6_GenerateStep ==
    pc = "generate" =>
        /\ YieldsNoDescriptor =>
               /\ fs' = fs
               /\ logs' = logs
               /\ last'.outcome = "nothing"
               /\ pc' = "scan" /\ idx' = idx + 1
        /\ (fs' # fs \/ last'.outcome = "written") =>
               /\ last'.outcome = "written"
               /\ Len(last'.data.Setters) >= 1
               /\ ExpectedDescriptors(AnnotatedTypes(node)) # <<>>
               /\ last'.path = Companion(files[idx])
               /\ fs' = [fs EXCEPT ![Companion(files[idx])] = Generated(last'.src)]

C6_NoDescriptorNoFile == [][C6_GenerateStep]_vars

\* generateTargetSetter has returned nil, without a file, for a unit with an
\* annotated type that has fields but no target field
C6_Witness ==
    /\ Synthesized /\ last.outcome = "nothing"
    /\ \E st \in Range(AnnotatedTypes(node)) : st.Type.Fields # <<>>
    /\ fs = fsAtList

C8_PipelinesIndependent ==
    pc = "generate" =>
        t.structs = searchTargetStructs(files[idx], fsAtList[files[idx]]).t.structs

(***************************************************************************)
(* C10: no (owning type, field name) pair occurs twice among the           *)
(* descriptors of a unit, also when a doc block has several marker lines.  *)
(***************************************************************************)
C10_NoDuplicateSetter ==
    Synthesized =>
        \A i, j \in 1..Len(last.data.Setters) :
            (/\ last.data.Setters[i].StructName = last.data.Setters[j].StructName
             /\ last.data.Setters[i].FieldName = last.data.Setters[j].FieldName) => i = j

(***************************************************************************)
(* C9: getFiledTypeString returns the canonical source text of the type    *)
(* expression: name; "*" T; pkg "." member; "[]" T for a slice; "map[" K   *)
(* "]" V; "interface{}" for the empty interface; the channel keyword, a    *)
(* space and T; "..." T; and it panics on every other node, a fixed-length *)
(* array and a non-empty interface included.                               *)
(***************************************************************************)
RECURSIVE IsPrintable(_)
IsPrintable(e) ==
    CASE e.kind = "Ident" -> TRUE
      [] e.kind = "StarExpr" -> IsPrintable(e.X)
      [] e.kind = "SelectorExpr" -> IsPrintable(e.X)
      [] e.kind = "ArrayType" -> e.Len = "nil" /\ IsPrintable(e.Elt)
      [] e.kind = "MapType" -> IsPrintable(e.Key) /\ IsPrintable(e.Value)
      [] e.kind = "InterfaceType" -> e.Methods = <<>>
      [] e.kind = "ChanType" -> IsPrintable(e.Value)
      [] e.kind = "Ellipsis" -> IsPrintable(e.Elt)
      [] OTHER -> FALSE

RECURSIVE CanonicalText(_)
CanonicalText(e) ==
    CASE e.kind = "Ident" -> <<e.Name>>
      [] e.kind = "StarExpr" -> <<"*">> \o CanonicalText(e.X)
      [] e.kind = "SelectorExpr" -> CanonicalText(e.X) \o <<".", e.Sel>>
      [] e.kind = "ArrayType" -> <<"[]">> \o CanonicalText(e.Elt)
      [] e.kind = "MapType" ->
            <<"map[">> \o CanonicalText(e.Key) \o <<"]">> \o CanonicalText(e.Value)
      [] e.kind = "InterfaceType" -> <<"interface{}">>
      [] e.kind = "ChanType" ->
            (IF e.Dir = "recv" THEN <<"<-chan ">> ELSE <<"chan ">>) \o CanonicalText(e.Value)
      [] e.kind = "Ellipsis" -> <<"...">> \o CanonicalText(e.Elt)

C9_PrinterIsCanonical ==
    printed.done =>
        IF IsPrintable(expr)
        THEN ~printed.panic /\ printed.s = CanonicalText(expr)
        ELSE printed.panic

====
